---- MODULE Spec2Model ----
(***************************************************************************)
(* Model of tools/dlldiff.py: the structural comparison of an original and *)
(* a rebuilt DLL (iter_diffs), and its caller (diff, main).                *)
(*                                                                         *)
(* Naming follows the source: "base" is the rebuilt DLL (build/bin/assets), *)
(* "targ" is the original DLL (bin/assets).  iter_diffs takes the base     *)
(* group of arguments first and the targ group second.                     *)
(*                                                                         *)
(* The DLL and DLLTab classes (dino/dll.py, dino/dll_tab.py) are imported  *)
(* by dlldiff.py; their accessors are modelled from the written            *)
(* description of the module format.                                       *)
(***************************************************************************)
EXTENDS Integers, Sequences, FiniteSets, TLC

\* ---------------------------------------------------------------- bounds

\* Longest module buffer, in bytes.
MaxLen == 3
\* Most export slots of a module.
MaxExports == 2
\* Number of entries of each DLLS.tab.
NumEntries == 2
\* Most DLL numbers on the command line (or source directories found).
MaxDlls == 2

\* Two values are enough to tell equal from different and expected from found.
ByteValues == 0..1
OffsetValues == 0..1
BssValues == 0..1
RelocSizes == 0..1

VARIABLES
    base,            \* parsed rebuilt DLL
    base_data,       \* bytes of the rebuilt DLL
    base_bss_size,   \* .bss size of the rebuilt DLL, from its DLLS.tab
    targ,            \* parsed original DLL
    targ_data,       \* bytes of the original DLL
    targ_bss_size,   \* .bss size of the original DLL, from its DLLS.tab
    gen,             \* iter_diffs: index of the next check the generator runs
    reports,         \* iter_diffs: what the generator has yielded so far
    pc,              \* control point
    base_tab,        \* main: rebuilt DLLS.tab, a sequence of bss sizes
    targ_tab,        \* main: original DLLS.tab
    dlls,            \* main: the DLL numbers to diff, as digit strings
    i,               \* main: 1-based position in dlls of the current DLL
    quiet_match,     \* main: no DLL numbers were given
    found_diff,      \* diff: the generator has yielded at least once
    out              \* standard output, one element per printed line

vars == <<base, base_data, base_bss_size, targ, targ_data, targ_bss_size,
          gen, reports, pc, base_tab, targ_tab, dlls, i, quiet_match,
          found_diff, out>>

\* ------------------------------------------------------- Python helpers

\* data[idx] on a bytes object or list, idx >= 0 counted from 0; a negative
\* idx counts from the end.
PyIndex(s, idx) == IF idx >= 0 THEN s[idx + 1] ELSE s[Len(s) + idx + 1]

\* range(n): empty when n <= 0.
PyRange(n) == 0 .. (n - 1)

RECURSIVE HexDigits(_)
\* "{:#x}".format(n) for n >= 0: the hexadecimal digits after the 0x prefix.
HexDigits(n) == IF n < 16 THEN <<n>> ELSE Append(HexDigits(n \div 16), n % 16)

RECURSIVE DecDigits(_)
\* "{}".format(n) for n >= 0: the decimal digits.
DecDigits(n) == IF n < 10 THEN <<n>> ELSE Append(DecDigits(n \div 10), n % 10)

RECURSIVE PyInt(_)
\* int(dll) for a string of decimal digits.
PyInt(s) == IF Len(s) = 0 THEN 0
            ELSE 10 * PyInt(SubSeq(s, 1, Len(s) - 1)) + s[Len(s)]

\* hashlib.md5(data).hexdigest(): equal digests are taken to mean equal data.
md5(data) == data

\* ------------------------------------------------------ the DLL accessors

get_text_size(dll) == dll.header.rodata_offset - dll.header.size

reloc_table_get_size(dll) == dll.reloc_table.size

get_rodata_size(dll) ==
    dll.header.data_offset - (dll.header.rodata_offset + reloc_table_get_size(dll))

get_data_size(dll) == dll.length - dll.header.data_offset

get_ram_size(dll) == get_text_size(dll) + get_rodata_size(dll) + get_data_size(dll)

\* ------------------------------------------------------------ iter_diffs

NoAt == <<>>

\* A yielded string: its fixed text, the position it names (if any) and the
\* two rendered values in the order the format string takes them.
Report(msg, at, expected, found) ==
    [msg |-> msg, at |-> at, expected |-> HexDigits(expected), found |-> HexDigits(found)]

TextOffsetCheck(b, bd, bb, t, td, tb) ==
    IF b.header.size # t.header.size
    THEN <<Report(".text offset mismatch", NoAt, t.header.size, b.header.size)>>
    ELSE <<>>

RodataOffsetCheck(b, bd, bb, t, td, tb) ==
    IF b.header.rodata_offset # t.header.rodata_offset
    THEN <<Report(".rodata offset mismatch", NoAt,
                  t.header.rodata_offset, b.header.rodata_offset)>>
    ELSE <<>>

DataOffsetCheck(b, bd, bb, t, td, tb) ==
    IF b.header.data_offset # t.header.data_offset
    THEN <<Report(".data offset mismatch", NoAt,
                  t.header.data_offset, b.header.data_offset)>>
    ELSE <<>>

BssOffsetCheck(b, bd, bb, t, td, tb) ==
    LET base_bss_offset == get_ram_size(b)
        targ_bss_offset == get_ram_size(t)
    IN  IF base_bss_offset # targ_bss_offset
        THEN <<Report(".bss offset mismatch", NoAt, targ_bss_offset, base_bss_offset)>>
        ELSE <<>>

\* Mutant: the two values handed to the format string in the other order.
CtorCheck_Swapped(b, bd, bb, t, td, tb) ==
    IF b.header.ctor_offset # t.header.ctor_offset
    THEN <<Report("Ctor offset mismatch", NoAt,
                  b.header.ctor_offset, t.header.ctor_offset)>>
    ELSE <<>>

CtorCheck(b, bd, bb, t, td, tb) ==
    IF b.header.ctor_offset # t.header.ctor_offset
    THEN <<Report("Ctor offset mismatch", NoAt,
                  t.header.ctor_offset, b.header.ctor_offset)>>
    ELSE <<>>

DtorCheck(b, bd, bb, t, td, tb) ==
    IF b.header.dtor_offset # t.header.dtor_offset
    THEN <<Report("Dtor offset mismatch", NoAt,
                  t.header.dtor_offset, b.header.dtor_offset)>>
    ELSE <<>>

RECURSIVE ExportLoop(_, _, _)
\* for idx in range(base.header.export_count): ... break at the first mismatch
ExportLoop(b, t, idx) ==
    IF idx \notin PyRange(b.header.export_count) THEN <<>>
    ELSE LET base_export == PyIndex(b.header.export_offsets, idx)
             targ_export == PyIndex(t.header.export_offsets, idx)
         IN  IF base_export # targ_export
             THEN <<Report("First export mismatch at idx", DecDigits(idx),
                           targ_export, base_export)>>
             ELSE ExportLoop(b, t, idx + 1)

\* Mutant: the loop has no break, and the last mismatch is what is reported.
ExportCheck_Last(b, bd, bb, t, td, tb) ==
    IF b.header.export_count # t.header.export_count
    THEN <<Report("Export count mismatch", NoAt,
                  t.header.export_count, b.header.export_count)>>
    ELSE LET diffs == {idx \in PyRange(b.header.export_count) :
                          PyIndex(b.header.export_offsets, idx) #
                          PyIndex(t.header.export_offsets, idx)}
         IN  IF diffs = {} THEN <<>>
             ELSE LET idx == CHOOSE x \in diffs : \A y \in diffs : y <= x
                  IN  <<Report("First export mismatch at idx", DecDigits(idx),
                               PyIndex(t.header.export_offsets, idx),
                               PyIndex(b.header.export_offsets, idx))>>

ExportCheck(b, bd, bb, t, td, tb) ==
    IF b.header.export_count # t.header.export_count
    THEN <<Report("Export count mismatch", NoAt,
                  t.header.export_count, b.header.export_count)>>
    ELSE ExportLoop(b, t, 0)

RECURSIVE ByteLoop(_, _, _, _, _, _, _)
\* for idx in range(n): compare base_data[boff + idx] with targ_data[toff + idx],
\* yield msg at the first mismatch and break
ByteLoop(msg, bd, boff, td, toff, n, idx) ==
    IF idx \notin PyRange(n) THEN <<>>
    ELSE LET base_byte == PyIndex(bd, boff + idx)
             targ_byte == PyIndex(td, toff + idx)
         IN  IF base_byte # targ_byte
             THEN <<Report(msg, HexDigits(idx), targ_byte, base_byte)>>
             ELSE ByteLoop(msg, bd, boff, td, toff, n, idx + 1)

\* Mutant: the bytes are read from the start of the buffer, not from .text.
TextCheck_FromZero(b, bd, bb, t, td, tb) ==
    IF get_text_size(b) # get_text_size(t)
    THEN <<Report(".text size mismatch", NoAt, get_text_size(t), get_text_size(b))>>
    ELSE ByteLoop("First .text mismatch", bd, 0, td, 0, get_text_size(b), 0)

\* Mutant: no else; the bytes both sections have are compared after a size
\* mismatch too.
TextCheck_NoElse(b, bd, bb, t, td, tb) ==
    (IF get_text_size(b) # get_text_size(t)
     THEN <<Report(".text size mismatch", NoAt, get_text_size(t), get_text_size(b))>>
     ELSE <<>>)
    \o ByteLoop("First .text mismatch", bd, b.header.size, td, t.header.size,
                IF get_text_size(b) < get_text_size(t)
                THEN get_text_size(b) ELSE get_text_size(t), 0)

TextCheck(b, bd, bb, t, td, tb) ==
    IF get_text_size(b) # get_text_size(t)
    THEN <<Report(".text size mismatch", NoAt, get_text_size(t), get_text_size(b))>>
    ELSE ByteLoop("First .text mismatch", bd, b.header.size, td, t.header.size,
                  get_text_size(b), 0)

\* Mutant: the original's .rodata is taken to start at its declared offset,
\* the relocation table not skipped.
RodataCheck_NoReloc(b, bd, bb, t, td, tb) ==
    IF get_rodata_size(b) # get_rodata_size(t)
    THEN <<Report(".rodata size mismatch", NoAt, get_rodata_size(t), get_rodata_size(b))>>
    ELSE LET base_rodata_offset == b.header.rodata_offset + reloc_table_get_size(b)
             targ_rodata_offset == t.header.rodata_offset
         IN  ByteLoop("First .rodata mismatch", bd, base_rodata_offset,
                      td, targ_rodata_offset, get_rodata_size(b), 0)

\* Mutant: the bytes of .rodata are not compared when the declared offsets differ.
RodataCheck_SkipOnOffset(b, bd, bb, t, td, tb) ==
    IF get_rodata_size(b) # get_rodata_size(t)
    THEN <<Report(".rodata size mismatch", NoAt, get_rodata_size(t), get_rodata_size(b))>>
    ELSE IF b.header.rodata_offset # t.header.rodata_offset THEN <<>>
    ELSE LET base_rodata_offset == b.header.rodata_offset + reloc_table_get_size(b)
             targ_rodata_offset == t.header.rodata_offset + reloc_table_get_size(t)
         IN  ByteLoop("First .rodata mismatch", bd, base_rodata_offset,
                      td, targ_rodata_offset, get_rodata_size(b), 0)

RodataCheck(b, bd, bb, t, td, tb) ==
    IF get_rodata_size(b) # get_rodata_size(t)
    THEN <<Report(".rodata size mismatch", NoAt, get_rodata_size(t), get_rodata_size(b))>>
    ELSE LET base_rodata_offset == b.header.rodata_offset + reloc_table_get_size(b)
             targ_rodata_offset == t.header.rodata_offset + reloc_table_get_size(t)
         IN  ByteLoop("First .rodata mismatch", bd, base_rodata_offset,
                      td, targ_rodata_offset, get_rodata_size(b), 0)

DataCheck(b, bd, bb, t, td, tb) ==
    IF get_data_size(b) # get_data_size(t)
    THEN <<Report(".data size mismatch", NoAt, get_data_size(t), get_data_size(b))>>
    ELSE ByteLoop("First .data mismatch", bd, b.header.data_offset,
                  td, t.header.data_offset, get_data_size(b), 0)

BssSizeCheck(b, bd, bb, t, td, tb) ==
    IF bb # tb
    THEN <<Report(".bss size mismatch", NoAt, tb, bb)>>
    ELSE <<>>

\* Mutant: the destructor check placed before the constructor check.
CheckOrder_DtorFirst ==
    <<"text_offset", "rodata_offset", "data_offset", "bss_offset",
      "dtor", "ctor", "export", "text", "rodata", "data", "bss_size">>

\* The checks in the order the generator body runs them.
CheckOrder == <<"text_offset", "rodata_offset", "data_offset", "bss_offset",
                "ctor", "dtor", "export", "text", "rodata", "data", "bss_size">>

NumChecks == Len(CheckOrder)

\* What check number k yields on the given arguments: <<>> or one report.
RunCheck(k, b, bd, bb, t, td, tb) ==
    CASE CheckOrder[k] = "text_offset"   -> TextOffsetCheck(b, bd, bb, t, td, tb)
      [] CheckOrder[k] = "rodata_offset" -> RodataOffsetCheck(b, bd, bb, t, td, tb)
      [] CheckOrder[k] = "data_offset"   -> DataOffsetCheck(b, bd, bb, t, td, tb)
      [] CheckOrder[k] = "bss_offset"    -> BssOffsetCheck(b, bd, bb, t, td, tb)
      [] CheckOrder[k] = "ctor"          -> CtorCheck(b, bd, bb, t, td, tb)
      [] CheckOrder[k] = "dtor"          -> DtorCheck(b, bd, bb, t, td, tb)
      [] CheckOrder[k] = "export"        -> ExportCheck(b, bd, bb, t, td, tb)
      [] CheckOrder[k] = "text"          -> TextCheck(b, bd, bb, t, td, tb)
      [] CheckOrder[k] = "rodata"        -> RodataCheck(b, bd, bb, t, td, tb)
      [] CheckOrder[k] = "data"          -> DataCheck(b, bd, bb, t, td, tb)
      [] CheckOrder[k] = "bss_size"      -> BssSizeCheck(b, bd, bb, t, td, tb)

\* Check k on the arguments of the call in progress.
Yielded(k) == RunCheck(k, base, base_data, base_bss_size, targ, targ_data, targ_bss_size)

\* Mutant: the generator returns after its first yield.
NextYield_StopAtFirst(k) ==
    LET hits == {j \in k..NumChecks : Yielded(j) # <<>>}
    IN  IF reports # <<>> \/ hits = {} THEN NumChecks + 1
        ELSE CHOOSE j \in hits : \A h \in hits : j <= h

RECURSIVE NextYield(_)
\* The generator, resumed before check k, runs on to the first check that
\* yields; NumChecks + 1 when it runs off the end of the body.
NextYield(k) ==
    IF k > NumChecks THEN NumChecks + 1
    ELSE IF Yielded(k) # <<>> THEN k
    ELSE NextYield(k + 1)

\* ------------------------------------------------------- module inputs

\* Section layouts of a well-formed module of at most MaxLen bytes: the header
\* (size bytes), .text up to rodata_offset, the relocation table, .rodata up
\* to data_offset, .data up to the end of the buffer.
Layouts ==
    {l \in [size : 1..MaxLen, rodata_offset : 1..MaxLen, reloc : RelocSizes,
            data_offset : 1..MaxLen, length : 1..MaxLen] :
        /\ l.size <= l.rodata_offset
        /\ l.rodata_offset + l.reloc <= l.data_offset
        /\ l.data_offset <= l.length}

\* The byte strings of length n.
Buffers(n) == [1..n -> ByteValues]

\* The export offset tables of at most MaxExports slots.
ExportTables == UNION {[1..n -> OffsetValues] : n \in 0..MaxExports}

\* DLL.parse: the parsed view of a module with layout l and the given
\* constructor/destructor offsets and export table.
MkDLL(l, ctor, dtor, exports) ==
    [header |-> [size |-> l.size,
                 rodata_offset |-> l.rodata_offset,
                 data_offset |-> l.data_offset,
                 ctor_offset |-> ctor,
                 dtor_offset |-> dtor,
                 export_count |-> Len(exports),
                 export_offsets |-> exports],
     reloc_table |-> [size |-> l.reloc],
     length |-> l.length]

\* A module with one byte of header and one byte in each section.
PlainLayout == [size |-> 1, rodata_offset |-> 2, reloc |-> 0, data_offset |-> 3, length |-> 4]
\* Every offset and every section size differs from PlainLayout's.
GrownLayout == [size |-> 2, rodata_offset |-> 4, reloc |-> 1, data_offset |-> 7, length |-> 9]

\* Layouts and contents of a (rebuilt, original) pair of modules.
SameModule ==
    [bl |-> PlainLayout, bd |-> <<0, 0, 0, 0>>, tl |-> PlainLayout, td |-> <<0, 0, 0, 0>>]
HeaderByteChanged ==
    [bl |-> PlainLayout, bd |-> <<1, 0, 0, 0>>, tl |-> PlainLayout, td |-> <<0, 0, 0, 0>>]
SectionsChanged ==
    [bl |-> PlainLayout, bd |-> <<0, 0, 0, 0>>, tl |-> PlainLayout, td |-> <<0, 1, 1, 1>>]
SectionsResized ==
    [bl |-> GrownLayout, bd |-> <<0, 0, 0, 0, 0, 0, 0, 0, 0>>,
     tl |-> PlainLayout, td |-> <<0, 0, 0, 0>>]

\* The pairs on which every combination of the other header fields is tried.
LayoutProfiles == {SameModule, SectionsChanged, SectionsResized}

\* Constructor, destructor and export fields of a pair: all equal, all different.
HeaderSame == [bc |-> 0, bt |-> 0, be |-> <<0, 1>>, tc |-> 0, tt |-> 0, te |-> <<0, 1>>]
HeaderChanged == [bc |-> 0, bt |-> 1, be |-> <<0, 1>>, tc |-> 1, tt |-> 0, te |-> <<0, 0>>]

\* ---------------------------------------------- iter_diffs on its own

\* The caller's variables, unused while iter_diffs is run on its own.
NoCaller ==
    /\ base_tab = <<>> /\ targ_tab = <<>> /\ dlls = <<>> /\ i = 0
    /\ quiet_match = FALSE /\ found_diff = FALSE /\ out = <<>>

\* Every pair of layouts and contents, the other header fields equal.  The
\* first byte of a buffer, always a byte of the header, is 0 here: iter_diffs
\* reads no header byte, and HeaderByteChanged (see FilePairs) differs there.
InitLayouts ==
    \E bl \in Layouts, tl \in Layouts :
        \E bd \in Buffers(bl.length - 1), td \in Buffers(tl.length - 1) :
            /\ base = MkDLL(bl, 0, 0, <<>>) /\ base_data = <<0>> \o bd /\ base_bss_size = 0
            /\ targ = MkDLL(tl, 0, 0, <<>>) /\ targ_data = <<0>> \o td /\ targ_bss_size = 0

\* Every pair of constructor, destructor, export and bss values, on each
\* LayoutProfile.
InitHeaders ==
    \E p \in LayoutProfiles :
        \E bc \in OffsetValues, tc \in OffsetValues, bt \in OffsetValues, tt \in OffsetValues,
           be \in ExportTables, te \in ExportTables, bb \in BssValues, tb \in BssValues :
            /\ base = MkDLL(p.bl, bc, bt, be) /\ base_data = p.bd /\ base_bss_size = bb
            /\ targ = MkDLL(p.tl, tc, tt, te) /\ targ_data = p.td /\ targ_bss_size = tb

\* iter_diffs(base, base_data, base_bss_size, targ, targ_data, targ_bss_size)
\* has been called and nothing has been asked of the generator yet.
InitIterDiffs ==
    /\ InitLayouts \/ InitHeaders
    /\ gen = 1 /\ reports = <<>> /\ pc = "iter_diffs"
    /\ NoCaller

\* next(generator): the body runs up to its next yield.
GenYield ==
    /\ pc = "iter_diffs"
    /\ LET j == NextYield(gen)
       IN  /\ j <= NumChecks
           /\ reports' = reports \o Yielded(j)
           /\ gen' = j + 1
    /\ UNCHANGED <<base, base_data, base_bss_size, targ, targ_data, targ_bss_size, pc,
                   base_tab, targ_tab, dlls, i, quiet_match, found_diff, out>>

\* next(generator): the body runs off its end (StopIteration).
GenReturn ==
    /\ pc = "iter_diffs"
    /\ NextYield(gen) > NumChecks
    /\ gen' = NumChecks + 1
    /\ pc' = "exhausted"
    /\ UNCHANGED <<base, base_data, base_bss_size, targ, targ_data, targ_bss_size, reports,
                   base_tab, targ_tab, dlls, i, quiet_match, found_diff, out>>



\* -------------------------------------------------------- main and diff

\* The DLL numbers that may be asked for: those of the tables' entries, as
\* decimal strings.
DllNames == {DecDigits(n) : n \in 1..NumEntries}

\* The lists of at most MaxDlls DLL numbers.
DllLists == UNION {[1..n -> DllNames] : n \in 0..MaxDlls}

\* A DLLS.tab: the bss_size of each entry.
Tabs == [1..NumEntries -> BssValues]

\* The files of a pair with layout profile p and header profile h.
FilePair(p, h) ==
    [base |-> MkDLL(p.bl, h.bc, h.bt, h.be), base_data |-> p.bd,
     targ |-> MkDLL(p.tl, h.tc, h.tt, h.te), targ_data |-> p.td]

\* The (rebuilt, original) pairs of module files a DLL number may name.
FilePairs ==
    {FilePair(SameModule, HeaderSame), FilePair(HeaderByteChanged, HeaderSame),
     FilePair(SectionsChanged, HeaderSame)}

\* A printed line that is not one of iter_diffs' strings.
Line(msg, at, expected, found) ==
    [msg |-> msg, at |-> at, expected |-> expected, found |-> found]

\* print(f"DLL {dll}:")
Label(dll) == Line("DLL", dll, <<>>, <<>>)

\* Mutant: the index is off by one.
TabBssSize_OffByOne(tab, dll) ==
    LET dll_int == PyInt(dll)
    IN  PyIndex(tab, dll_int - 2)

\* base_tab.entries[dll_int - 1].bss_size
TabBssSize(tab, dll) ==
    LET dll_int == PyInt(dll)
    IN  PyIndex(tab, dll_int - 1)

\* glob(f"{SRC_DLLS_DIR}/*"): every DLL of the table has a source directory.
SrcDlls == [n \in 1..NumEntries |-> DecDigits(n)]

\* main up to its loop: the DLL numbers given (or, when none is given, the
\* names of the source directories) and the two tables loaded.
InitMain ==
    /\ \E given \in DllLists :
        /\ quiet_match = (Len(given) = 0)
        /\ dlls = IF Len(given) = 0 THEN SrcDlls ELSE given
    /\ base_tab \in Tabs
    /\ targ_tab \in Tabs
    /\ i = 1
    /\ pc = "main"
    /\ out = <<>>
    /\ found_diff = FALSE
    /\ base = MkDLL(PlainLayout, 0, 0, <<>>) /\ base_data = <<>> /\ base_bss_size = 0
    /\ targ = MkDLL(PlainLayout, 0, 0, <<>>) /\ targ_data = <<>> /\ targ_bss_size = 0
    /\ gen = NumChecks + 1
    /\ reports = <<>>

\* diff(...): one of the two files of dlls[i] does not exist; exit(1).
DiffMissing ==
    /\ pc = "main"
    /\ i <= Len(dlls)
    /\ \E targ_exists \in BOOLEAN, base_exists \in BOOLEAN :
        /\ ~(targ_exists /\ base_exists)
        /\ out' = Append(out, Line("ERR: DLL not found",
                                   dlls[i],
                                   IF ~targ_exists THEN <<0>> ELSE <<1>>,
                                   <<>>))
    /\ pc' = "exit"
    /\ UNCHANGED <<base, base_data, base_bss_size, targ, targ_data, targ_bss_size,
                   gen, reports, base_tab, targ_tab, dlls, i, quiet_match, found_diff>>

\* diff(...): both files of dlls[i] exist; the bss sizes are looked up, the
\* files read and parsed, and iter_diffs is called.
DiffLoad ==
    /\ pc = "main"
    /\ i <= Len(dlls)
    /\ base_bss_size' = TabBssSize(base_tab, dlls[i])
    /\ targ_bss_size' = TabBssSize(targ_tab, dlls[i])
    /\ \E f \in FilePairs :
        /\ targ_data' = f.targ_data
        /\ base_data' = f.base_data
        /\ targ' = f.targ
        /\ base' = f.base
    /\ found_diff' = FALSE
    /\ gen' = 1
    /\ reports' = <<>>
    /\ pc' = "for"
    /\ UNCHANGED <<base_tab, targ_tab, dlls, i, quiet_match, out>>

\* diff(...): one turn of the for loop over iter_diffs(...) that gets a string.
DiffPrint ==
    /\ pc = "for"
    /\ LET j == NextYield(gen)
       IN  /\ j <= NumChecks
           /\ reports' = reports \o Yielded(j)
           /\ gen' = j + 1
           /\ out' = out \o (IF ~found_diff THEN <<Label(dlls[i])>> ELSE <<>>) \o Yielded(j)
    /\ found_diff' = TRUE
    /\ UNCHANGED <<base, base_data, base_bss_size, targ, targ_data, targ_bss_size, pc,
                   base_tab, targ_tab, dlls, i, quiet_match>>

\* diff(...): the generator is exhausted and the for loop ends.
DiffLoopEnd ==
    /\ pc = "for"
    /\ NextYield(gen) > NumChecks
    /\ gen' = NumChecks + 1
    /\ pc' = "after"
    /\ UNCHANGED <<base, base_data, base_bss_size, targ, targ_data, targ_bss_size, reports,
                   base_tab, targ_tab, dlls, i, quiet_match, found_diff, out>>

\* Mutant: the hashes are compared whether or not a discrepancy was found.
AfterLoop_AlwaysHash(found, dll, bd, td, quiet) ==
    LET base_md5 == md5(bd)
        targ_md5 == md5(td)
    IN  IF base_md5 = targ_md5
        THEN IF ~quiet THEN <<Line("DLL OK.", dll, <<>>, <<>>)>> ELSE <<>>
        ELSE <<Label(dll), Line("MD5 mismatch", <<>>, targ_md5, base_md5)>>

\* What diff prints after its for loop.
AfterLoop(found, dll, bd, td, quiet) ==
    IF ~found
    THEN LET base_md5 == md5(bd)
             targ_md5 == md5(td)
         IN  IF base_md5 = targ_md5
             THEN IF ~quiet THEN <<Line("DLL OK.", dll, <<>>, <<>>)>> ELSE <<>>
             ELSE <<Label(dll), Line("MD5 mismatch", <<>>, targ_md5, base_md5)>>
    ELSE <<>>

\* diff(...): after the for loop, up to the return into main's loop.
DiffReturn ==
    /\ pc = "after"
    /\ out' = out \o AfterLoop(found_diff, dlls[i], base_data, targ_data, quiet_match)
    /\ i' = i + 1
    /\ pc' = "main"
    /\ UNCHANGED <<base, base_data, base_bss_size, targ, targ_data, targ_bss_size,
                   gen, reports, base_tab, targ_tab, dlls, quiet_match, found_diff>>

\* main: the loop over dlls is over.
MainEnd ==
    /\ pc = "main"
    /\ i > Len(dlls)
    /\ pc' = "end"
    /\ UNCHANGED <<base, base_data, base_bss_size, targ, targ_data, targ_bss_size,
                   gen, reports, base_tab, targ_tab, dlls, i, quiet_match, found_diff, out>>

\* The program is entered at main, or iter_diffs is called on its own.
Init == InitIterDiffs \/ InitMain

Next ==
    \/ GenYield \/ GenReturn
    \/ DiffMissing \/ DiffLoad \/ DiffPrint \/ DiffLoopEnd \/ DiffReturn \/ MainEnd

Spec == Init /\ [][Next]_vars


\* ============================================================== claims

\* The generator has run off the end of its body: reports is everything
\* iter_diffs yields on the arguments of the call.
Exhausted == pc \in {"exhausted", "after"}

\* A call of iter_diffs is in progress or has ended.
Called == pc \in {"iter_diffs", "exhausted", "for", "after"}

Has(msg) == \E n \in 1..Len(reports) : reports[n].msg = msg

\* The number of reports whose text is in the set msgs.
Count(msgs) == Cardinality({n \in 1..Len(reports) : reports[n].msg \in msgs})

\* The place in the precedence of the check a report text belongs to.
Category(msg) ==
    CASE msg = ".text offset mismatch"   -> 1
      [] msg = ".rodata offset mismatch" -> 2
      [] msg = ".data offset mismatch"   -> 3
      [] msg = ".bss offset mismatch"    -> 4
      [] msg = "Ctor offset mismatch"    -> 5
      [] msg = "Dtor offset mismatch"    -> 6
      [] msg \in {"Export count mismatch", "First export mismatch at idx"} -> 7
      [] msg \in {".text size mismatch", "First .text mismatch"}           -> 8
      [] msg \in {".rodata size mismatch", "First .rodata mismatch"}       -> 9
      [] msg \in {".data size mismatch", "First .data mismatch"}           -> 10
      [] msg = ".bss size mismatch"      -> 11
      [] OTHER -> 0

Least(S) == CHOOSE x \in S : \A y \in S : x <= y

\* The true start of .rodata: past the relocation table.
RodataStart(dll) == dll.header.rodata_offset + dll.reloc_table.size

\* Byte number pos (from 0) of a buffer.
ByteAt(data, pos) == data[pos + 1]

\* The positions at which two spans of n bytes differ, the spans starting at
\* boff in the first side's buffer and at toff in the second side's.
SpanDiffs(boff, toff, n) ==
    {idx \in 0..(n - 1) : ByteAt(base_data, boff + idx) # ByteAt(targ_data, toff + idx)}

TextSizesEqual == get_text_size(base) = get_text_size(targ)
RodataSizesEqual == get_rodata_size(base) = get_rodata_size(targ)
DataSizesEqual == get_data_size(base) = get_data_size(targ)

TextDiffs == SpanDiffs(base.header.size, targ.header.size, get_text_size(base))
RodataDiffs == SpanDiffs(RodataStart(base), RodataStart(targ), get_rodata_size(base))
DataDiffs == SpanDiffs(base.header.data_offset, targ.header.data_offset, get_data_size(base))

ExportCountsEqual == base.header.export_count = targ.header.export_count
ExportDiffs ==
    {idx \in 0..(base.header.export_count - 1) :
        base.header.export_offsets[idx + 1] # targ.header.export_offsets[idx + 1]}

\* ---- C1
\* C1: comparing a module with a byte-for-byte identical one (same parsed
\* module, same bytes), with equal bss sizes, yields no report at all.
Identical ==
    /\ base = targ
    /\ base_data = targ_data
    /\ base_bss_size = targ_bss_size

C1_IdenticalYieldsNothing == (Called /\ Identical) => reports = <<>>

\* An identical pair with a relocation table and a non-empty section has been
\* compared to the end.
C1_Witness ==
    /\ pc = "exhausted" /\ Identical
    /\ base.reloc_table.size > 0
    /\ get_rodata_size(base) > 0
    /\ Len(base_data) = MaxLen

\* ---- C2
\* The positions (from 0) at which the two buffers differ.
BufferDiffs ==
    {pos \in 0..(Len(base_data) - 1) : ByteAt(base_data, pos) # ByteAt(targ_data, pos)}

\* Same parsed module and bss sizes, equal lengths, exactly one differing
\* byte, and that byte inside .text.
OneTextByteDiffers ==
    /\ base = targ
    /\ base_bss_size = targ_bss_size
    /\ Len(base_data) = Len(targ_data)
    /\ Cardinality(BufferDiffs) = 1
    /\ \A pos \in BufferDiffs :
        base.header.size <= pos /\ pos < base.header.rodata_offset

\* C2: two buffers with the same header that differ in one byte of .text, at
\* position p, give exactly one report: the .text content mismatch at
\* in-section offset p - header.size, whose two values are the two bytes at p.
C2_OneTextByte ==
    (Exhausted /\ OneTextByteDiffers) =>
        /\ Len(reports) = 1
        /\ reports[1].msg = "First .text mismatch"
        /\ \A pos \in BufferDiffs :
            /\ reports[1].at = HexDigits(pos - base.header.size)
            /\ {reports[1].expected, reports[1].found} =
                   {HexDigits(ByteAt(base_data, pos)), HexDigits(ByteAt(targ_data, pos))}

\* The one differing byte is the second byte of .text.
C2_Witness ==
    /\ pc = "exhausted" /\ OneTextByteDiffers
    /\ BufferDiffs = {base.header.size + 1}


\* ---- C3
\* The value one side (its parsed module, its bytes, its bss size) has in the
\* place a report with text msg is about.
SideValue(msg, dll, data, bss) ==
    CASE msg = ".text offset mismatch"   -> dll.header.size
      [] msg = ".rodata offset mismatch" -> dll.header.rodata_offset
      [] msg = ".data offset mismatch"   -> dll.header.data_offset
      [] msg = ".bss offset mismatch"    -> get_ram_size(dll)
      [] msg = "Ctor offset mismatch"    -> dll.header.ctor_offset
      [] msg = "Dtor offset mismatch"    -> dll.header.dtor_offset
      [] msg = "Export count mismatch"   -> dll.header.export_count
      [] msg = "First export mismatch at idx" ->
             dll.header.export_offsets[Least(ExportDiffs) + 1]
      [] msg = ".text size mismatch"     -> get_text_size(dll)
      [] msg = "First .text mismatch"    -> ByteAt(data, dll.header.size + Least(TextDiffs))
      [] msg = ".rodata size mismatch"   -> get_rodata_size(dll)
      [] msg = "First .rodata mismatch"  -> ByteAt(data, RodataStart(dll) + Least(RodataDiffs))
      [] msg = ".data size mismatch"     -> get_data_size(dll)
      [] msg = "First .data mismatch"    ->
             ByteAt(data, dll.header.data_offset + Least(DataDiffs))
      [] msg = ".bss size mismatch"      -> bss

FirstSide(msg) == HexDigits(SideValue(msg, base, base_data, base_bss_size))
SecondSide(msg) == HexDigits(SideValue(msg, targ, targ_data, targ_bss_size))

\* C3 as claimed: every report renders as "expected" the value of the first
\* group of arguments and as "found" the value of the second group.
C3_ExpectedIsFirstSide ==
    Called =>
        \A n \in 1..Len(reports) :
            /\ reports[n].expected = FirstSide(reports[n].msg)
            /\ reports[n].found = SecondSide(reports[n].msg)

\* C3 as amended: every report of every category renders as "expected" the
\* value of the second group of arguments (targ, the original module) and as
\* "found" the value of the first group (base, the rebuilt module).
C3_ExpectedIsSecondSide ==
    Called =>
        \A n \in 1..Len(reports) :
            /\ reports[n].expected = SecondSide(reports[n].msg)
            /\ reports[n].found = FirstSide(reports[n].msg)

\* Header, export, content and bss reports have all been yielded by one call.
C3_Witness ==
    /\ pc = "exhausted"
    /\ Has("Ctor offset mismatch") /\ Has("First export mismatch at idx")
    /\ Has("First .text mismatch") /\ Has(".bss size mismatch")

\* ---- C4
RodataOffsetsDiffer == base.header.rodata_offset # targ.header.rodata_offset

\* C4 as claimed: when the declared rodata offsets differ, the offset report
\* is yielded and no .rodata content report is.
C4_OffsetMismatchSkipsContent ==
    (Exhausted /\ RodataOffsetsDiffer) =>
        /\ Has(".rodata offset mismatch")
        /\ ~Has("First .rodata mismatch")

\* C4 as amended: when the declared rodata offsets differ, the offset report
\* is yielded, and the .rodata content report is yielded as well exactly
\* when the two derived .rodata sizes are equal and some byte of the two
\* .rodata spans differs.
C4_OffsetMismatchKeepsContent ==
    (Exhausted /\ RodataOffsetsDiffer) =>
        /\ Has(".rodata offset mismatch")
        /\ Has("First .rodata mismatch") <=> (RodataSizesEqual /\ RodataDiffs # {})

\* Both the offset report and the content report of .rodata were yielded.
C4_Witness ==
    /\ pc = "exhausted" /\ RodataOffsetsDiffer
    /\ Has(".rodata offset mismatch") /\ Has("First .rodata mismatch")

\* ---- C5
ExportMsgs == {"Export count mismatch", "First export mismatch at idx"}

\* C5: different export counts give the count report and no per-index report;
\* equal counts with differing tables give one report, naming the smallest
\* differing index; equal counts and equal tables give no export report.
C5_ExportCheck ==
    Exhausted =>
        /\ ~ExportCountsEqual =>
               (Count(ExportMsgs) = 1 /\ Has("Export count mismatch"))
        /\ (ExportCountsEqual /\ ExportDiffs # {}) =>
               /\ Count(ExportMsgs) = 1
               /\ \E n \in 1..Len(reports) :
                      /\ reports[n].msg = "First export mismatch at idx"
                      /\ reports[n].at = DecDigits(Least(ExportDiffs))
        /\ (ExportCountsEqual /\ ExportDiffs = {}) => Count(ExportMsgs) = 0

\* Equal counts, the tables differing at every index but the first.
C5_Witness ==
    /\ pc = "exhausted" /\ ExportCountsEqual
    /\ base.header.export_count = MaxExports
    /\ ExportDiffs = 1..(MaxExports - 1)

\* ---- C6
\* C6: reports come in the fixed precedence of their checks, each check at
\* most once, so at most one report per check.
C6_Precedence ==
    Called =>
        /\ \A n \in 1..Len(reports) : Category(reports[n].msg) \in 1..NumChecks
        /\ \A m \in 1..Len(reports), n \in 1..Len(reports) :
               m < n => Category(reports[m].msg) < Category(reports[n].msg)
        /\ Len(reports) <= NumChecks

\* A call in which every check yielded a report.
C6_Witness == pc = "exhausted" /\ Len(reports) = NumChecks

\* ---- C7
\* For one section: a content report only with equal sizes; with different
\* sizes exactly the size report.
SizeShortCircuits(sizes_equal, size_msg, first_msg) ==
    /\ Has(first_msg) => sizes_equal
    /\ ~(Has(size_msg) /\ Has(first_msg))
    /\ (Exhausted /\ ~sizes_equal) => (Has(size_msg) /\ Count({size_msg, first_msg}) = 1)

\* C7: for .text, .rodata and .data, a size mismatch report and a content
\* mismatch report never both occur; different sizes give only the size report.
C7_SizeShortCircuits ==
    Called =>
        /\ SizeShortCircuits(TextSizesEqual, ".text size mismatch", "First .text mismatch")
        /\ SizeShortCircuits(RodataSizesEqual, ".rodata size mismatch", "First .rodata mismatch")
        /\ SizeShortCircuits(DataSizesEqual, ".data size mismatch", "First .data mismatch")

\* The .text sizes differ and the first bytes of the two .text spans differ too.
C7_Witness ==
    /\ pc = "exhausted" /\ ~TextSizesEqual
    /\ get_text_size(base) > 0 /\ get_text_size(targ) > 0
    /\ ByteAt(base_data, base.header.size) # ByteAt(targ_data, targ.header.size)


\* ---- C8
AllMsgs ==
    {".text offset mismatch", ".rodata offset mismatch", ".data offset mismatch",
     ".bss offset mismatch", "Ctor offset mismatch", "Dtor offset mismatch",
     "Export count mismatch", "First export mismatch at idx",
     ".text size mismatch", "First .text mismatch",
     ".rodata size mismatch", "First .rodata mismatch",
     ".data size mismatch", "First .data mismatch", ".bss size mismatch"}

\* The discrepancy a report text stands for, stated on the arguments alone.
Discrepancy(msg) ==
    CASE msg = ".text offset mismatch"   -> base.header.size # targ.header.size
      [] msg = ".rodata offset mismatch" -> RodataOffsetsDiffer
      [] msg = ".data offset mismatch"   -> base.header.data_offset # targ.header.data_offset
      [] msg = ".bss offset mismatch"    -> get_ram_size(base) # get_ram_size(targ)
      [] msg = "Ctor offset mismatch"    -> base.header.ctor_offset # targ.header.ctor_offset
      [] msg = "Dtor offset mismatch"    -> base.header.dtor_offset # targ.header.dtor_offset
      [] msg = "Export count mismatch"   -> ~ExportCountsEqual
      [] msg = "First export mismatch at idx" -> ExportCountsEqual /\ ExportDiffs # {}
      [] msg = ".text size mismatch"     -> ~TextSizesEqual
      [] msg = "First .text mismatch"    -> TextSizesEqual /\ TextDiffs # {}
      [] msg = ".rodata size mismatch"   -> ~RodataSizesEqual
      [] msg = "First .rodata mismatch"  -> RodataSizesEqual /\ RodataDiffs # {}
      [] msg = ".data size mismatch"     -> ~DataSizesEqual
      [] msg = "First .data mismatch"    -> DataSizesEqual /\ DataDiffs # {}
      [] msg = ".bss size mismatch"      -> base_bss_size # targ_bss_size

\* The DLL numbers main's output accounts for, in order: each diff that
\* prints names its DLL once, in the label or in the OK line.
Answered ==
    LET named == SelectSeq(out, LAMBDA l : l.msg \in {"DLL", "DLL OK."})
    IN  [n \in 1..Len(named) |-> named[n].at]

\* C8: each report is yielded exactly when its own discrepancy holds,
\* whatever the earlier checks reported (the .bss size report exactly when
\* the two supplied bss sizes differ); and main's loop diffs every requested
\* DLL, whatever the earlier DLLs' reports: it ends early only on a missing file.
C8_NoSuppression ==
    /\ Exhausted => \A msg \in AllMsgs : Has(msg) <=> Discrepancy(msg)
    /\ pc = "end" => i = Len(dlls) + 1
    /\ (pc = "end" /\ ~quiet_match) => Answered = dlls
    /\ pc = "exit" => out[Len(out)].msg = "ERR: DLL not found"

\* main has ended after two DLLs: the first was reported with discrepancies,
\* the last of them the .bss size mismatch, and the second was diffed and passed.
C8_Witness ==
    /\ pc = "end" /\ Len(dlls) = 2 /\ Len(out) > 3
    /\ out[1] = Label(dlls[1])
    /\ out[2].msg = "First .text mismatch"
    /\ out[Len(out) - 1].msg = ".bss size mismatch"
    /\ out[Len(out)] = Line("DLL OK.", dlls[2], <<>>, <<>>)

\* ---- C9
\* What a finished for loop is followed by on standard output.
Outcome ==
    IF reports # <<>> THEN <<>>
    ELSE IF base_data = targ_data
         THEN IF quiet_match THEN <<>> ELSE <<Line("DLL OK.", dlls[i], <<>>, <<>>)>>
         ELSE <<Label(dlls[i]), Line("MD5 mismatch", <<>>, targ_data, base_data)>>

\* The last n lines of standard output.
LastLines(n) == SubSeq(out, Len(out) - n + 1, Len(out))

\* C9: the whole-buffer hashes are compared exactly when iter_diffs yielded
\* nothing.  A DLL's discrepancies are printed under one label, printed
\* before the first of them; otherwise the DLL passes (printed unless
\* quiet_match) or its hash mismatch is printed, never with a discrepancy.
C9_HashOnlyWhenNoReport ==
    /\ [](pc \in {"for", "after"} =>
            /\ found_diff <=> (reports # <<>>)
            /\ reports # <<>> =>
                   /\ Len(out) > Len(reports)
                   /\ LastLines(Len(reports) + 1) = <<Label(dlls[i])>> \o reports)
    /\ [][pc = "after" => out' = out \o Outcome]_vars

\* A DLL without discrepancies whose hashes differ has been reported.
C9_Witness ==
    /\ pc = "main" /\ i = 2
    /\ reports = <<>> /\ base_data # targ_data
    /\ Len(out) = 2 /\ out[2].msg = "MD5 mismatch"

\* ---- C10
\* The entry of a table at index idx counted from 0.
EntryAt(tab, idx) == tab[idx + 1]

\* C10: for the DLL number N, 1 <= N <= number of entries, the bss sizes
\* given to iter_diffs are those of entry N - 1 (from 0) of each side's own
\* table.
C10_BssFromOwnTable ==
    pc \in {"for", "after"} =>
        \A N \in 1..NumEntries :
            dlls[i] = DecDigits(N) =>
                /\ base_bss_size = EntryAt(base_tab, N - 1)
                /\ targ_bss_size = EntryAt(targ_tab, N - 1)

\* The last DLL of tables whose entries, and whose sides, all differ.
C10_Witness ==
    /\ pc = "for" /\ dlls[i] = DecDigits(NumEntries)
    /\ base_tab[1] # base_tab[NumEntries]
    /\ targ_tab[1] # targ_tab[NumEntries]
    /\ base_tab[NumEntries] # targ_tab[NumEntries]

====
